---- MODULE Spec2Model ----
(***************************************************************************)
(* Uptime Sentinel: the ping worker (PingWorker), the Website document's   *)
(* addPingResult method and the notification gate, as a state machine.     *)
(*                                                                         *)
(* Time is a discrete clock `now`; the three configurable durations        *)
(* (PING_INTERVAL_MINUTES, DOWNTIME_MONITORING_HOURS,                      *)
(* PAUSE_MONITORING_HOURS) are expressed in clock units.                   *)
(***************************************************************************)
EXTENDS Integers, Sequences, FiniteSets, TLC

\* ------------------------------------------------------------------ bounds
MaxTime == 5
MaxPings == 5
MaxLeaked == 1
MaxOutages == 1
MaxInserts == 3
MaxEndpointCalls == 1
MaxRequestTime == 1

\* WebSocket objects the dashboard's WebSocketService creates in a run
MaxSockets == 4

\* WebSocketService.maxReconnectAttempts
maxReconnectAttempts == 5

\* the close code of an intentional close
NormalClosure == 1000

\* --------------------------------------------------- program configuration
PingInterval == 1
DowntimeMonitoring == 2
PauseMonitoring == 3
AlertThreshold == 3
RecoveryThreshold == 3
HistoryCap == 100

Sites == {1, 2}
NoDate == -1

\* the sites whose URL contains '/health' or '/status'
HealthEndpoints == {2}

VARIABLES
  now,          \* wall clock
  db,           \* the websites collection: site id -> persisted document
  dbUp,         \* FALSE while the storage may reject a find or a save
  outages,      \* how often the storage became unavailable
  closeFaulty,  \* TRUE while page.close() may reject
  isRunning,    \* PingWorker.isRunning
  queue,        \* documents loaded by the running cycle and not yet pinged
  startupDue,   \* the setTimeout of start() has not fired yet
  totalPingsCompleted, \* PingWorker.totalPingsCompleted
  pingCalls,    \* calls of pingWebsite made so far
  activeCycles, \* invocations of runPingCycle that are past the guard
  liveContexts, \* browser contexts opened by pingWebsite and not closed
  livePages,    \* pages opened by pingWebsite and not closed
  ev,           \* what the last step did
  incident,     \* per site: observer of the current incident
  recent,       \* per site: the last probe records, Len(Scenario) of them
  suspendedAt,  \* per site: when addPingResult stopped it, until resumed
  inserted,     \* per site: every result a save() of addPingResult stored
  probed,       \* the sites pingWebsite was called for in the latest cycle
  pinging,      \* per site: calls of pingWebsite in progress
  userPaused,   \* the sites paused by pauseWebsite and not resumed by hand
  endpointCalls, \* calls of the pause and resume endpoints made so far
  shutdown,     \* where PingWorker.shutdown is: "none", "waiting" for the
                \* cycle, "closing" the browser and the connection, "exited"
  sockets,      \* the WebSocket objects connect() has created, in order
  ws,           \* WebSocketService.ws: an index of sockets, 0 for null
  reconnectAttempts, \* WebSocketService.reconnectAttempts
  isReconnecting,    \* WebSocketService.isReconnecting
  timers        \* pending setTimeout callbacks of reconnect()

\* the environment's modes, the worker's fields, the browser's sessions
\* and the observers, as groups
envVars == <<dbUp, outages, closeFaulty>>
workerVars ==
  <<isRunning, queue, totalPingsCompleted, pingCalls, activeCycles, pinging>>
browserVars == <<liveContexts, livePages>>
obsVars == <<incident, recent, suspendedAt, inserted, probed, userPaused>>

\* what lies outside the ping cycles: the API endpoints and the process
clientVars == <<sockets, ws, reconnectAttempts, isReconnecting, timers>>
outerVars == <<endpointCalls, shutdown, clientVars>>

vars == <<now, db, envVars, workerVars, startupDue, browserVars, ev, obsVars,
          outerVars>>

\* ------------------------------------------------------------- documents
\* new Website({url, ...}) saved at time t: the schema defaults.
\* url is "health" for a URL containing '/health' or '/status', else "page".
NewWebsite(url, t) ==
  [ url                   |-> url,
    status                |-> "PENDING",
    consecutiveFailures   |-> 0,
    emailNotificationSent |-> FALSE,
    nextPingTime          |-> t + PingInterval,
    isTemporarilyStopped  |-> FALSE,
    stopPingUntil         |-> NoDate,
    pingHistory           |-> << >> ]

\* pauseWebsite applied to a new document: stopped until resumed by hand
PausedWebsite(url, t) ==
  [NewWebsite(url, t) EXCEPT !.isTemporarilyStopped = TRUE,
                             !.stopPingUntil = NoDate]

\* the url of the document of site s
UrlOf(s) == IF s \in HealthEndpoints THEN "health" ELSE "page"

\* a cap that keeps the oldest entries
SliceFirst(s, n) ==
  IF Len(s) <= n THEN s ELSE SubSeq(s, 1, n)

\* Array.prototype.slice(-n)
SliceLast(s, n) ==
  IF Len(s) <= n THEN s ELSE SubSeq(s, Len(s) - n + 1, Len(s))

\* document.save(): only the paths whose value was changed since the
\* document was loaded are written; cur is the stored document, loaded the
\* document as it was read, mem the document in memory.
SaveModified(cur, loaded, mem) ==
  [f \in DOMAIN cur |-> IF mem[f] # loaded[f] THEN mem[f] ELSE cur[f]]

\* addPingResult with the monitoring limit moved by every failed result
AddPingResultSliding(w, statusCode, t) ==
  LET isUp == statusCode >= 200 /\ statusCode < 400
      h    == SliceLast(Append(w.pingHistory, statusCode), HistoryCap)
      base == [w EXCEPT !.pingHistory = h,
                        !.status = IF isUp THEN "UP" ELSE "DOWN"]
  IN IF isUp
     THEN [base EXCEPT !.nextPingTime = t + PingInterval,
                       !.isTemporarilyStopped = FALSE,
                       !.stopPingUntil = NoDate]
     ELSE [base EXCEPT !.stopPingUntil = t + DowntimeMonitoring,
                       !.nextPingTime = t + PingInterval]

\* addPingResult with an up branch that keeps the monitoring limit
AddPingResultKeepLimit(w, statusCode, t) ==
  LET isUp == statusCode >= 200 /\ statusCode < 400
      h    == SliceLast(Append(w.pingHistory, statusCode), HistoryCap)
      base == [w EXCEPT !.pingHistory = h,
                        !.status = IF isUp THEN "UP" ELSE "DOWN"]
  IN IF isUp
     THEN [base EXCEPT !.nextPingTime = t + PingInterval,
                       !.isTemporarilyStopped = FALSE]
     ELSE IF w.stopPingUntil = NoDate
          THEN [base EXCEPT !.stopPingUntil = t + DowntimeMonitoring,
                            !.nextPingTime = t + PingInterval]
          ELSE IF t < w.stopPingUntil
               THEN [base EXCEPT !.nextPingTime = t + PingInterval]
               ELSE [base EXCEPT !.isTemporarilyStopped = TRUE,
                                 !.nextPingTime = t + PauseMonitoring]

\* addPingResult with a monitoring window of no length
AddPingResultNoWindow(w, statusCode, t) ==
  LET isUp == statusCode >= 200 /\ statusCode < 400
      h    == SliceLast(Append(w.pingHistory, statusCode), HistoryCap)
      base == [w EXCEPT !.pingHistory = h,
                        !.status = IF isUp THEN "UP" ELSE "DOWN"]
  IN IF isUp
     THEN [base EXCEPT !.nextPingTime = t + PingInterval,
                       !.isTemporarilyStopped = FALSE,
                       !.stopPingUntil = NoDate]
     ELSE IF w.stopPingUntil = NoDate
          THEN [base EXCEPT !.stopPingUntil = t,
                            !.nextPingTime = t + PingInterval]
          ELSE IF t < w.stopPingUntil
               THEN [base EXCEPT !.nextPingTime = t + PingInterval]
               ELSE [base EXCEPT !.isTemporarilyStopped = TRUE,
                                 !.nextPingTime = t + PauseMonitoring]

\* websiteSchema.methods.addPingResult, without the final save():
\* the document as it is in memory when save() is called at time t.
AddPingResult(w, statusCode, t) ==
  LET isUp == statusCode >= 200 /\ statusCode < 400
      h    == SliceLast(Append(w.pingHistory, statusCode), HistoryCap)
      base == [w EXCEPT !.pingHistory = h,
                        !.status = IF isUp THEN "UP" ELSE "DOWN"]
  IN IF isUp
     THEN [base EXCEPT !.nextPingTime = t + PingInterval,
                       !.isTemporarilyStopped = FALSE,
                       !.stopPingUntil = NoDate]
     ELSE IF w.stopPingUntil = NoDate
          THEN [base EXCEPT !.stopPingUntil = t + DowntimeMonitoring,
                            !.nextPingTime = t + PingInterval]
          ELSE IF t < w.stopPingUntil
               THEN [base EXCEPT !.nextPingTime = t + PingInterval]
               ELSE [base EXCEPT !.isTemporarilyStopped = TRUE,
                                 !.nextPingTime = t + PauseMonitoring]

\* the document of a site created at time t that failed its first two
\* probes, at t + PingInterval and t + 2 * PingInterval
FailingWebsite(url, t) ==
  [NewWebsite(url, t) EXCEPT
     !.status = "DOWN",
     !.consecutiveFailures = 2,
     !.stopPingUntil = t + PingInterval + DowntimeMonitoring,
     !.nextPingTime = t + 3 * PingInterval,
     !.pingHistory = <<0, 0>>]

\* the status codes of n results of a site that answered every probe,
\* oldest first
AnsweredHistory(n) == [i \in 1..n |-> IF i % 2 = 0 THEN 200 ELSE 301]

\* the document of a site that is up after n answered probes, the last
\* one at time t
SeasonedWebsite(url, n, t) ==
  [NewWebsite(url, t) EXCEPT !.status = "UP",
                             !.pingHistory = AnsweredHistory(n)]

\* the status codes a client sends to PUT /:id/ping-result (the
\* controller rejects a statusCode of 0)
EndpointCodes == {200, 500}

\* ------------------------------------------------------------- the probe
\* What page.goto / the session set-up of one probe can produce.
\* "http200" is a 200 whose body holds a positive token (ok, success,
\* healthy, up), "http200NoToken" a 200 whose body holds none.
ProbeResults ==
  {"http200", "http200NoToken", "http500", "timeout", "contextFail",
   "pageFail"}

\* page.goto returned a response
Responded(res) == res \in {"http200", "http200NoToken", "http500"}

\* response ? response.status() : 0 (no response when something threw)
StatusCodeOf(res) ==
  IF res \in {"http200", "http200NoToken"} THEN 200
  ELSE IF res = "http500" THEN 500 ELSE 0

\* pageText.includes('ok') || ... || pageText.includes('up')
HasToken(res) == res = "http200"

\* isHealthy: for a health/status URL the body tokens or a 2xx status,
\* for any other URL the status code alone
IsHealthy(url, res) ==
  LET statusCode == StatusCodeOf(res)
  IN /\ Responded(res) /\ statusCode >= 200 /\ statusCode < 400
     /\ IF url = "health"
        THEN HasToken(res) \/ (statusCode >= 200 /\ statusCode < 300)
        ELSE statusCode >= 200 /\ statusCode < 400

\* what the classification read of the body: nothing unless a health/status
\* URL answered 2xx or 3xx
BodyRead(url, res) ==
  LET statusCode == StatusCodeOf(res)
  IN IF url = "health" /\ Responded(res)
        /\ statusCode >= 200 /\ statusCode < 400
     THEN (IF HasToken(res) THEN "token" ELSE "bare")
     ELSE "unread"

\* the probe failed before any session was opened: createBrowserContext
\* rejected because the browser is unusable
EngineFailed(res) == res = "contextFail"

\* wasDown taking any failure for a down time
WasDownAny(w) == w.consecutiveFailures >= 1

\* const wasDown = website.consecutiveFailures >= 3
WasDown(w) == w.consecutiveFailures >= RecoveryThreshold

\* the alert gate without the flag
ShouldAlertUngated(w) == w.consecutiveFailures >= AlertThreshold

\* the alert gate one failure early
ShouldAlertEarly(w) ==
  w.consecutiveFailures >= AlertThreshold - 1 /\ ~w.emailNotificationSent

\* if (website.consecutiveFailures >= 3 && !website.emailNotificationSent)
ShouldAlert(w) ==
  w.consecutiveFailures >= AlertThreshold /\ ~w.emailNotificationSent

\* the flag set whatever sendDowntimeAlert returned
FlagAfterSendAlways(w, emailSent) == [w EXCEPT !.emailNotificationSent = TRUE]

\* if (emailSent) { website.emailNotificationSent = true; ... }
FlagAfterSend(w, emailSent) ==
  IF emailSent THEN [w EXCEPT !.emailNotificationSent = TRUE] ELSE w

\* The catch block of pingWebsite, entered with the in-memory document m.
\* saveA is the outcome of the save() inside addPingResult(0, duration),
\* saveB the outcome of the save() after the flag was set.
\* stored: the last document a save() wrote in this block, if wrote.
CatchBlock(m, emailOk, saveA, saveB, t) ==
  LET m1 == [m EXCEPT !.consecutiveFailures = @ + 1]
      m2 == AddPingResult(m1, 0, t)
      m3 == FlagAfterSend(m2, emailOk)
      a  == IF emailOk THEN "sent" ELSE "failed"
  IN IF ~saveA
     THEN [wrote |-> FALSE, stored |-> m, alert |-> "none", threw |-> TRUE]
     ELSE IF ~ShouldAlert(m2)
     THEN [wrote |-> TRUE, stored |-> m2, alert |-> "none", threw |-> FALSE]
     ELSE IF m3 = m2
     THEN [wrote |-> TRUE, stored |-> m2, alert |-> a, threw |-> FALSE]
     ELSE IF saveB
     THEN [wrote |-> TRUE, stored |-> m3, alert |-> a, threw |-> FALSE]
     ELSE [wrote |-> TRUE, stored |-> m2, alert |-> a, threw |-> TRUE]

\* a healthy probe resetting the failure count only
ResetOnHealthyCountOnly(w) == [w EXCEPT !.consecutiveFailures = 0]

\* website.consecutiveFailures = 0; website.emailNotificationSent = false
ResetOnHealthy(w) ==
  [w EXCEPT !.consecutiveFailures = 0, !.emailNotificationSent = FALSE]

\* The try and catch blocks of pingWebsite for the loaded document w.
\* save1 is the outcome of the first save() the call makes, save2 and
\* save3 of the following ones.
PingResult(w, res, emailOk, save1, save2, save3, t) ==
  IF IsHealthy(w.url, res)
  THEN LET w1 == ResetOnHealthy(w)
           w2 == AddPingResult(w1, StatusCodeOf(res), t)
       IN IF save1
          THEN [wrote |-> TRUE, stored |-> w2, alert |-> "none",
                threw |-> FALSE, recovery |-> WasDown(w), healthy |-> TRUE]
          ELSE CatchBlock(w2, emailOk, save2, save3, t)
                 @@ [recovery |-> FALSE, healthy |-> TRUE]
  ELSE CatchBlock(w, emailOk, save1, save2, t)
         @@ [recovery |-> FALSE, healthy |-> FALSE]

\* The session a probe opens (createBrowserContext, newPage) and the
\* finally block that closes it: the contexts and pages still live after
\* the call. page.close() throwing skips context.close(); a context that
\* is closed takes its pages with it.
Cleanup(res, pageCloseOk) ==
  LET contextOpened == res # "contextFail"
      pageOpened    == contextOpened /\ res # "pageFail"
  IN IF pageOpened /\ ~pageCloseOk
     THEN [contexts |-> 1, pages |-> 1]
     ELSE [contexts |-> 0, pages |-> 0]

\* ------------------------------------------------------------ the queries
\* the due query with $lt in the place of $lte
DueForCheckLate(d, t) ==
  {s \in Sites : d[s].nextPingTime < t /\ ~d[s].isTemporarilyStopped}

\* Website.find of runPingCycle: nextPingTime <= now and not stopped
DueForCheck(d, t) ==
  {s \in Sites : d[s].nextPingTime <= t /\ ~d[s].isTemporarilyStopped}

\* the resume query with $lt in the place of $lte
DueForResumeLate(d, t) ==
  {s \in Sites : d[s].isTemporarilyStopped
                 /\ d[s].stopPingUntil # NoDate /\ d[s].stopPingUntil < t}

\* Website.find of checkAndResumeStoppedWebsites: stopped and a
\* stopPingUntil date that has passed (a stored null matches neither
\* $lte nor $exists: false)
DueForResume(d, t) ==
  {s \in Sites : d[s].isTemporarilyStopped
                 /\ d[s].stopPingUntil # NoDate /\ d[s].stopPingUntil <= t}

\* the documents of a result set, in collection order
RECURSIVE Ordered(_)
Ordered(S) ==
  IF S = {} THEN << >>
  ELSE LET m == CHOOSE x \in S : \A y \in S : x <= y
       IN <<m>> \o Ordered(S \ {m})

\* a resume that makes the site due at once
ResumeWebsiteNow(w, t) ==
  [w EXCEPT !.isTemporarilyStopped = FALSE,
            !.stopPingUntil = NoDate,
            !.nextPingTime = t]

\* the body of the loop of checkAndResumeStoppedWebsites
ResumeWebsite(w, t) ==
  [w EXCEPT !.isTemporarilyStopped = FALSE,
            !.stopPingUntil = NoDate,
            !.nextPingTime = t + PingInterval]

\* a cycle that ends without the finally block
AfterFinallyKept(running) == running

\* finally { this.isRunning = false }
AfterFinally(running) == FALSE

\* runPingCycle without its guard
MayStartAlways(running) == TRUE

\* runPingCycle with the guard reading a flag that is never set
MayStartUnflagged(running) == running \/ ~running

\* if (this.isRunning) return;  -- may this invocation run a cycle?
MayStart(running) == ~running

\* the loop left by a failed probe as by an exception
RestAfterPingAbort(q, healthy, threw) ==
  IF threw \/ ~healthy THEN << >> ELSE Tail(q)

\* checkAndResumeStoppedWebsites called while documents are left to ping
MayResumeAnytime(q) == TRUE

\* await this.checkAndResumeStoppedWebsites() after the for loop (or on
\* the path that found nothing to ping): nothing is left to ping
MayResume(q) == q = << >>

\* for (const website of websites) { await this.pingWebsite(website) }
\* inside the try of runPingCycle: what is left to ping after one call.
RestAfterPing(q, healthy, threw) == IF threw THEN << >> ELSE Tail(q)

\* outcomes a save() or find() can have in the current storage state
IoOutcomes == IF dbUp THEN {TRUE} ELSE {TRUE, FALSE}

\* outcomes page.close() can have: it may reject while the pages are
\* faulty; at most MaxLeaked contexts are left open
CloseOutcomes ==
  IF closeFaulty /\ liveContexts < MaxLeaked THEN {TRUE, FALSE} ELSE {TRUE}

\* ------------------------------------------------------------ observers
NoIncident ==
  [fails |-> 0, downSince |-> NoDate, delivered |-> 0, attempted |-> 0,
   suspendedOnce |-> FALSE]

\* the incident a stored document w is in when the worker starts
IncidentOf(w) ==
  [fails |-> w.consecutiveFailures,
   downSince |-> IF w.stopPingUntil = NoDate THEN NoDate
                 ELSE w.stopPingUntil - DowntimeMonitoring,
   delivered |-> IF w.emailNotificationSent THEN 1 ELSE 0,
   attempted |-> IF w.emailNotificationSent THEN 1 ELSE 0,
   suspendedOnce |-> FALSE]

NoEvent == [kind |-> "none"]

\* healthy, 3 x unhealthy, healthy: the probe sequence of the alerting
\* scenario, as the healthy flags of five probes in a row
Scenario == <<TRUE, FALSE, FALSE, FALSE, TRUE>>

\* the worker after new PingWorker() and start(), the storage and the
\* browser in order, no endpoint called, the observers at their start
Constructed ==
  /\ dbUp = TRUE
  /\ outages = 0
  /\ closeFaulty = FALSE
  /\ isRunning = FALSE
  /\ queue = << >>
  /\ startupDue = TRUE
  /\ totalPingsCompleted = 0
  /\ pingCalls = 0
  /\ activeCycles = 0
  /\ pinging = [s \in Sites |-> 0]
  /\ liveContexts = 0
  /\ livePages = 0
  /\ ev = NoEvent
  /\ incident = [s \in Sites |-> IncidentOf(db[s])]
  /\ recent = [s \in Sites |-> << >>]
  /\ suspendedAt = [s \in Sites |-> NoDate]
  /\ inserted = [s \in Sites |-> db[s].pingHistory]
  /\ probed = {}
  /\ userPaused = {s \in Sites : db[s].isTemporarilyStopped}
  /\ endpointCalls = 0
  /\ shutdown = "none"
  /\ sockets = << >>
  /\ ws = 0
  /\ reconnectAttempts = 0
  /\ isReconnecting = FALSE
  /\ timers = 0

Init ==
  /\ now = 0
  /\ db \in {d \in [Sites -> {NewWebsite("page", 0), NewWebsite("health", 0),
                             PausedWebsite("page", 0),
                             PausedWebsite("health", 0)}] :
               \A s \in Sites : d[s].url = UrlOf(s)}
  /\ Constructed

\* two sites with a history two results below the cap or at the cap
InitHistory ==
  /\ now = 0
  /\ db \in {d \in [Sites -> {SeasonedWebsite(u, n, 0) :
                                 u \in {"page", "health"},
                                 n \in {HistoryCap - 2, HistoryCap}}] :
               \A s \in Sites : d[s].url = UrlOf(s)}
  /\ Constructed

\* await this.pingWebsite(website) entered for the first document of q,
\* if there is one: the calls in progress after that
CallStarted(p, q) ==
  IF q = << >> THEN p ELSE [p EXCEPT ![Head(q).id] = @ + 1]

\* the call of pingWebsite for site s returned or threw
CallEnded(p, s) == [p EXCEPT ![s] = IF @ > 0 THEN @ - 1 ELSE 0]

\* ------------------------------------------------------------- actions
\* time passes
Tick ==
  /\ now < MaxTime
  /\ now' = now + 1
  /\ ev' = [kind |-> "time"]
  /\ UNCHANGED <<db, envVars, workerVars, startupDue, browserVars, obsVars,
                 outerVars>>

\* runPingCycle up to the result of the due query, called by the cron
\* job or by the start-up timer.
RunPingCycle(src) ==
  /\ shutdown # "exited"
  /\ src = "startup" => startupDue
  /\ startupDue' = (startupDue /\ src # "startup")
  /\ IF MayStart(isRunning)
     THEN \E findOk \in IoOutcomes :
            /\ activeCycles' = IF findOk THEN activeCycles + 1
                               ELSE activeCycles
            /\ isRunning' = IF findOk THEN TRUE ELSE AfterFinally(TRUE)
            /\ queue' = IF findOk
                        THEN [i \in 1..Cardinality(DueForCheck(db, now)) |->
                               LET s == Ordered(DueForCheck(db, now))[i]
                               IN [id |-> s, doc |-> db[s]]]
                        ELSE << >>
            /\ probed' = IF findOk THEN {} ELSE probed
            /\ pinging' = IF findOk THEN CallStarted(pinging, queue')
                          ELSE pinging
            /\ ev' = [kind |-> "start", src |-> src, found |-> findOk]
     ELSE /\ ev' = [kind |-> "skip", src |-> src]
          /\ UNCHANGED <<isRunning, queue, activeCycles, probed, pinging>>
  /\ UNCHANGED <<now, db, envVars, totalPingsCompleted, pingCalls,
                 browserVars, incident, recent, suspendedAt, inserted,
                 userPaused, outerVars>>

\* one iteration of the loop of runPingCycle: pingWebsite(website) with
\* its try, catch and finally; an exception that escapes it ends the cycle.
PingWebsite ==
  /\ shutdown # "exited"
  /\ isRunning
  /\ queue # << >>
  /\ pingCalls < MaxPings
  /\ pingCalls' = pingCalls + 1
  /\ \E res \in ProbeResults, emailOk \in BOOLEAN,
        pageCloseOk \in CloseOutcomes,
        save1 \in IoOutcomes, save2 \in IoOutcomes, save3 \in IoOutcomes :
       LET s  == Head(queue).id
           w  == Head(queue).doc
           r  == PingResult(w, res, emailOk, save1, save2, save3, now)
           c  == Cleanup(res, pageCloseOk)
           i  == incident[s]
           d  == SaveModified(db[s], w, r.stored)
           q  == RestAfterPing(queue, r.healthy, r.threw)
           suspends == r.wrote /\ d.isTemporarilyStopped
                       /\ ~db[s].isTemporarilyStopped
       IN /\ emailOk \/ r.alert # "none"
          /\ shutdown = "closing" => res = "contextFail"
          /\ db' = IF r.wrote THEN [db EXCEPT ![s] = d] ELSE db
          /\ pinging' = CallStarted(CallEnded(pinging, s), q)
          /\ liveContexts' = liveContexts + c.contexts
          /\ livePages' = livePages + c.pages
          /\ queue' = q
          /\ isRunning' = IF r.threw THEN AfterFinally(isRunning) ELSE isRunning
          /\ activeCycles' = IF r.threw THEN activeCycles - 1
                             ELSE activeCycles
          /\ totalPingsCompleted' = IF r.threw THEN totalPingsCompleted
                                    ELSE totalPingsCompleted + 1
          /\ ev' = [kind |-> "ping", site |-> s,
                    healthy |-> r.healthy, alert |-> r.alert,
                    recovery |-> r.recovery, threw |-> r.threw,
                    body |-> BodyRead(w.url, res),
                    engine |-> EngineFailed(res),
                    rejected |-> (r.threw \/ (r.healthy /\ ~save1))]
          /\ probed' = probed \cup {s}
          /\ inserted' = [inserted EXCEPT ![s] =
               IF ~r.wrote THEN @
               ELSE IF r.healthy /\ save1 THEN Append(@, StatusCodeOf(res))
               ELSE IF r.healthy THEN @ \o <<StatusCodeOf(res), 0>>
               ELSE Append(@, 0)]
          /\ incident' = [incident EXCEPT ![s] =
               IF r.healthy THEN NoIncident
               ELSE [fails |-> i.fails + 1,
                     downSince |-> IF i.downSince = NoDate THEN now
                                   ELSE i.downSince,
                     delivered |-> i.delivered
                                   + (IF r.alert = "sent" THEN 1 ELSE 0),
                     attempted |-> i.attempted
                                   + (IF r.alert # "none" THEN 1 ELSE 0),
                     suspendedOnce |-> i.suspendedOnce \/ suspends]]
          /\ recent' = [recent EXCEPT ![s] = SliceLast(
               Append(@, [healthy |-> r.healthy, alert |-> r.alert,
                          recovery |-> r.recovery]), Len(Scenario))]
          /\ suspendedAt' = IF suspends THEN [suspendedAt EXCEPT ![s] = now]
                            ELSE suspendedAt
  /\ UNCHANGED <<now, envVars, startupDue, userPaused, outerVars>>

\* the end of runPingCycle: checkAndResumeStoppedWebsites, then the
\* finally block. A find or save that fails is caught inside
\* checkAndResumeStoppedWebsites and leaves the later sites stopped.
FinishCycle ==
  /\ shutdown # "exited"
  /\ isRunning
  /\ MayResume(queue)
  /\ \E findOk \in IoOutcomes :
       LET found == IF findOk THEN Ordered(DueForResume(db, now)) ELSE << >>
       IN \E k \in (IF dbUp THEN {Len(found)} ELSE 0..Len(found)) :
            LET resumed == {found[j] : j \in 1..k}
            IN /\ db' = [s \in Sites |->
                          IF s \in resumed THEN ResumeWebsite(db[s], now)
                          ELSE db[s]]
               /\ suspendedAt' = [s \in Sites |->
                          IF s \in resumed THEN NoDate ELSE suspendedAt[s]]
               /\ ev' = [kind |-> "finish", resumed |-> resumed]
  /\ isRunning' = AfterFinally(isRunning)
  /\ activeCycles' = activeCycles - 1
  /\ UNCHANGED <<now, envVars, queue, startupDue, totalPingsCompleted,
                 pingCalls, pinging, browserVars, incident, recent, inserted,
                 probed, userPaused, outerVars>>

\* updatePingResult (PUT /:id/ping-result): findById, addPingResult
UpdatePingResult ==
  /\ \E s \in Sites, statusCode \in EndpointCodes, saveOk \in IoOutcomes :
       LET w == AddPingResult(db[s], statusCode, now)
           suspends == saveOk /\ w.isTemporarilyStopped
                       /\ ~db[s].isTemporarilyStopped
       IN /\ Len(inserted[s]) < HistoryCap + MaxInserts
          /\ db' = IF saveOk THEN [db EXCEPT ![s] = w] ELSE db
          /\ inserted' = IF saveOk
                         THEN [inserted EXCEPT ![s] = Append(@, statusCode)]
                         ELSE inserted
          /\ suspendedAt' = IF suspends THEN [suspendedAt EXCEPT ![s] = now]
                            ELSE suspendedAt
          /\ ev' = [kind |-> "update", site |-> s, saved |-> saveOk]
  /\ UNCHANGED <<now, envVars, workerVars, startupDue, browserVars,
                 incident, recent, probed, userPaused, outerVars>>

\* pauseWebsite (PUT /:id/pause): findById, set the two fields, save.
\* The dashboard sends the request for a site it shows as not stopped.
PauseWebsite ==
  /\ endpointCalls < MaxEndpointCalls
  /\ now <= MaxRequestTime
  /\ endpointCalls' = endpointCalls + 1
  /\ \E s \in Sites, saveOk \in IoOutcomes :
       /\ ~db[s].isTemporarilyStopped
       /\ db' = IF saveOk
                THEN [db EXCEPT ![s] = [@ EXCEPT !.isTemporarilyStopped = TRUE,
                                                 !.stopPingUntil = NoDate]]
                ELSE db
       /\ userPaused' = IF saveOk THEN userPaused \cup {s} ELSE userPaused
       /\ ev' = [kind |-> "pause", site |-> s, saved |-> saveOk]
  /\ UNCHANGED <<now, envVars, workerVars, startupDue, browserVars, incident,
                 recent, suspendedAt, inserted, probed, shutdown, clientVars>>

\* resumeWebsite (PUT /:id/resume): findById, set the three fields, save.
\* The dashboard sends the request for a site it shows as stopped.
ResumeWebsiteRequest ==
  /\ endpointCalls < MaxEndpointCalls
  /\ now <= MaxRequestTime
  /\ endpointCalls' = endpointCalls + 1
  /\ \E s \in Sites, saveOk \in IoOutcomes :
       /\ db[s].isTemporarilyStopped
       /\ db' = IF saveOk
                THEN [db EXCEPT ![s] = [@ EXCEPT !.isTemporarilyStopped = FALSE,
                                                 !.stopPingUntil = NoDate,
                                                 !.nextPingTime = now]]
                ELSE db
       /\ userPaused' = IF saveOk THEN userPaused \ {s} ELSE userPaused
       /\ suspendedAt' = IF saveOk THEN [suspendedAt EXCEPT ![s] = NoDate]
                         ELSE suspendedAt
       /\ ev' = [kind |-> "resume", site |-> s, saved |-> saveOk]
  /\ UNCHANGED <<now, envVars, workerVars, startupDue, browserVars, incident,
                 recent, inserted, probed, shutdown, clientVars>>

\* the storage becomes unavailable / available again
RegistryFail ==
  /\ dbUp
  /\ dbUp' = FALSE
  /\ ev' = [kind |-> "registry"]
  /\ outages < MaxOutages
  /\ outages' = outages + 1
  /\ UNCHANGED <<now, db, closeFaulty, workerVars, startupDue, browserVars,
                 obsVars, outerVars>>

RegistryRecover ==
  /\ ~dbUp
  /\ dbUp' = TRUE
  /\ ev' = [kind |-> "registry"]
  /\ UNCHANGED <<now, db, outages, closeFaulty, workerVars, startupDue,
                 browserVars, obsVars, outerVars>>

\* the pages of the browser start / stop rejecting close()
PageFault ==
  /\ closeFaulty' = ~closeFaulty
  /\ ev' = [kind |-> "browser"]
  /\ UNCHANGED <<now, db, dbUp, outages, workerVars, startupDue, browserVars,
                 obsVars, outerVars>>

Next ==
  \/ Tick
  \/ RunPingCycle("cron")
  \/ RunPingCycle("startup")
  \/ PingWebsite
  \/ FinishCycle

Spec == Init /\ [][Next]_vars

\* node-cron keeps calling runPingCycle, an awaited pingWebsite returns or
\* throws (every wait in it has a time-out), and the code after the loop
\* runs
Fairness ==
  /\ WF_vars(RunPingCycle("cron"))
  /\ WF_vars(PingWebsite)
  /\ WF_vars(FinishCycle)

SpecLive == Spec /\ Fairness

\* the cron tick at which the sites created at time 0 are due for the
\* first time
InitRegistry ==
  /\ now = PingInterval
  /\ db \in {d \in [Sites -> {NewWebsite("page", 0), NewWebsite("health", 0),
                             PausedWebsite("page", 0),
                             PausedWebsite("health", 0)}] :
               \A s \in Sites : d[s].url = UrlOf(s)}
  /\ Constructed

\* the worker restarted at the cron tick at which site 1, created at time
\* 0 and failing since, is due for the third time; site 2 is stopped
InitRestart ==
  /\ now = 3 * PingInterval
  /\ db = [s \in Sites |-> IF s = 1 THEN FailingWebsite(UrlOf(s), 0)
                           ELSE PausedWebsite(UrlOf(s), 0)]
  /\ Constructed

\* the worker over a storage that can fail, at one instant of the clock:
\* the cycles of that tick and the cycles that retry it
NextRegistry ==
  \/ RunPingCycle("cron")
  \/ RunPingCycle("startup")
  \/ PingWebsite
  \/ FinishCycle
  \/ RegistryFail
  \/ RegistryRecover

SpecRegistry == InitRegistry /\ [][NextRegistry]_vars

\* ... where cron keeps ticking, awaited calls end and an outage ends
SpecRegistryLive == SpecRegistry /\ Fairness /\ WF_vars(RegistryRecover)

\* the same after a restart of the worker with a failing site
SpecRestart ==
  InitRestart /\ [][NextRegistry]_vars /\ Fairness /\ WF_vars(RegistryRecover)

\* the worker over a browser whose pages can fail to close
NextBrowser == Next \/ PageFault

SpecBrowser == Init /\ [][NextBrowser]_vars

\* the worker and the users of the pause and resume endpoints
NextApi == Next \/ PauseWebsite \/ ResumeWebsiteRequest

SpecApi == Init /\ [][NextApi]_vars

\* shutdown (SIGTERM, SIGINT, uncaughtException, unhandledRejection) up to
\* its first await: the poll of isRunning if a cycle is in progress, else
\* browser.close()
ShutdownBegin ==
  /\ shutdown = "none"
  /\ shutdown' = IF isRunning THEN "waiting" ELSE "closing"
  /\ ev' = [kind |-> "shutdown", step |-> "begin"]
  /\ UNCHANGED <<now, db, envVars, workerVars, startupDue, browserVars,
                 obsVars, endpointCalls, clientVars>>

\* a one-second timer of the wait loop fires and finds isRunning false:
\* shutdown goes on to browser.close() and mongoose.connection.close()
ShutdownPoll ==
  /\ shutdown = "waiting"
  /\ ~isRunning
  /\ shutdown' = "closing"
  /\ ev' = [kind |-> "shutdown", step |-> "poll"]
  /\ UNCHANGED <<now, db, envVars, workerVars, startupDue, browserVars,
                 obsVars, endpointCalls, clientVars>>

\* the two close() calls have returned: process.exit(0)
ShutdownExit ==
  /\ shutdown = "closing"
  /\ shutdown' = "exited"
  /\ ev' = [kind |-> "shutdown", step |-> "exit"]
  /\ UNCHANGED <<now, db, envVars, workerVars, startupDue, browserVars,
                 obsVars, endpointCalls, clientVars>>

\* the worker and a shutdown signal
NextShutdown ==
  \/ Next
  \/ ShutdownBegin
  \/ ShutdownPoll
  \/ ShutdownExit

SpecShutdown == Init /\ [][NextShutdown]_vars

\* ------------------------------------------------- the dashboard's socket
\* the fields reconnect() reads and writes
ClientState ==
  [reconnectAttempts |-> reconnectAttempts,
   isReconnecting |-> isReconnecting,
   timers |-> timers]

\* reconnect(): nothing while an attempt is marked in progress or the
\* attempts are used up; else mark, count and schedule connect()
Reconnect(c) ==
  IF c.isReconnecting \/ c.reconnectAttempts >= maxReconnectAttempts
  THEN c
  ELSE [c EXCEPT !.isReconnecting = TRUE,
                 !.reconnectAttempts = @ + 1,
                 !.timers = @ + 1]

\* ws.onclose
OnCloseHandler(c, code) ==
  IF code # NormalClosure /\ ~c.isReconnecting THEN Reconnect(c) ELSE c

\* the codes a close event of socket k can carry: 1000 after close(1000)
\* or a close frame on an open connection, 1006 when the connection was
\* lost or never established
CloseCodes(k) ==
  IF ~k.wasOpen THEN {1006}
  ELSE IF k.readyState = "CLOSING" THEN {NormalClosure}
  ELSE {NormalClosure, 1006}

\* connect(): called by the dashboard ("app") or by the timer of
\* reconnect() ("timer"); the new socket replaces this.ws
Connect(src) ==
  /\ Len(sockets) < MaxSockets
  /\ src = "timer" => timers > 0
  /\ timers' = IF src = "timer" THEN timers - 1 ELSE timers
  /\ sockets' = Append(sockets, [readyState |-> "CONNECTING",
                                 wasOpen |-> FALSE, src |-> src])
  /\ ws' = Len(sockets) + 1
  /\ ev' = [kind |-> "connect", src |-> src]
  /\ UNCHANGED <<now, db, envVars, workerVars, startupDue, browserVars,
                 obsVars, endpointCalls, shutdown, reconnectAttempts,
                 isReconnecting>>

\* ws.onopen of socket i
OnOpen(i) ==
  /\ sockets[i].readyState = "CONNECTING"
  /\ sockets' = [sockets EXCEPT ![i].readyState = "OPEN", ![i].wasOpen = TRUE]
  /\ reconnectAttempts' = 0
  /\ isReconnecting' = FALSE
  /\ ev' = [kind |-> "open", socket |-> i]
  /\ UNCHANGED <<now, db, envVars, workerVars, startupDue, browserVars,
                 obsVars, endpointCalls, shutdown, ws, timers>>

\* ws.onclose of socket i with a close code
OnClose(i) ==
  /\ sockets[i].readyState # "CLOSED"
  /\ \E code \in CloseCodes(sockets[i]) :
       LET c == OnCloseHandler(ClientState, code)
       IN /\ reconnectAttempts' = c.reconnectAttempts
          /\ isReconnecting' = c.isReconnecting
          /\ timers' = c.timers
          /\ ev' = [kind |-> "close", socket |-> i, code |-> code,
                    byClient |-> sockets[i].readyState = "CLOSING"]
  /\ sockets' = [sockets EXCEPT ![i].readyState = "CLOSED"]
  /\ UNCHANGED <<now, db, envVars, workerVars, startupDue, browserVars,
                 obsVars, endpointCalls, shutdown, ws>>

\* disconnect(): close(1000) on the current socket, this.ws = null
Disconnect ==
  /\ ws # 0
  /\ sockets' = [sockets EXCEPT ![ws].readyState =
                    IF @ = "CLOSED" THEN "CLOSED" ELSE "CLOSING"]
  /\ ws' = 0
  /\ ev' = [kind |-> "disconnect"]
  /\ UNCHANGED <<now, db, envVars, workerVars, startupDue, browserVars,
                 obsVars, endpointCalls, shutdown, reconnectAttempts,
                 isReconnecting, timers>>

NextSocket ==
  \/ Connect("app")
  \/ Connect("timer")
  \/ \E i \in 1..Len(sockets) : OnOpen(i)
  \/ \E i \in 1..Len(sockets) : OnClose(i)
  \/ Disconnect

\* the dashboard's WebSocketService beside a worker that is not running
InitSocket ==
  /\ now = 0
  /\ db = [s \in Sites |-> NewWebsite(UrlOf(s), 0)]
  /\ Constructed

SpecSocket == InitSocket /\ [][NextSocket]_vars

\* the ping-result endpoint called for sites with a long history
NextHistory == UpdatePingResult

SpecHistory == InitHistory /\ [][NextHistory]_vars

\* ============================================================== claims
\* the step is pingWebsite for site s
PingOf(s) == ev'.kind = "ping" /\ ev'.site = s

\* the last state is the result of pingWebsite for site s
PingedLast(s) == ev.kind = "ping" /\ ev.site = s

\* C1: once emailNotificationSent is true for a site, no pingWebsite call
\* for that site calls sendDowntimeAlert until a healthy probe has reset
\* the flag, and at most one alert is delivered between two healthy probes.
C1_OneAlertPerIncident ==
  /\ [](\A s \in Sites : incident[s].delivered <= 1)
  /\ [][\A s \in Sites :
          (db[s].emailNotificationSent /\ PingOf(s)) => ev'.alert = "none"]_vars

\* C1 witness: the alert of the incident was delivered and a later
\* unhealthy probe of the same incident sent nothing.
C1_Witness ==
  \E s \in Sites :
    /\ PingedLast(s) /\ ~ev.healthy /\ ev.alert = "none"
    /\ db[s].emailNotificationSent
    /\ incident[s].delivered = 1
    /\ incident[s].fails > AlertThreshold

\* C2: a sendDowntimeAlert that returns false leaves emailNotificationSent
\* false; an unhealthy probe that ends with consecutiveFailures >= 3 while
\* the flag is false attempts the alert; the flag turns true only in a
\* pingWebsite call whose sendDowntimeAlert returned true.
C2_RetryAfterDeliveryFailure ==
  [][\A s \in Sites :
       /\ (PingOf(s) /\ ev'.alert = "failed")
            => ~db'[s].emailNotificationSent
       /\ (PingOf(s) /\ ~ev'.healthy /\ ~db[s].emailNotificationSent
             /\ db'[s].consecutiveFailures >= AlertThreshold)
            => ev'.alert # "none"
       /\ (~db[s].emailNotificationSent /\ db'[s].emailNotificationSent)
            => (PingOf(s) /\ ev'.alert = "sent")]_vars

\* C2 witness: a delivery failed, the next qualifying probe retried and the
\* retry was delivered and set the flag.
C2_Witness ==
  \E s \in Sites :
    /\ PingedLast(s) /\ ev.alert = "sent"
    /\ incident[s].attempted >= 2
    /\ incident[s].delivered = 1
    /\ db[s].emailNotificationSent

\* C3: sendRecoveryNotification is called by a probe exactly when the probe
\* is healthy and at least 3 unhealthy probes preceded it since the last
\* healthy one, that is when the prior consecutiveFailures is >= 3; a
\* healthy probe of a site that is UP sends none.
C3_OneRecoveryPerIncident ==
  [][\A s \in Sites : PingOf(s) =>
       /\ ev'.recovery <=> (ev'.healthy /\ incident[s].fails >= RecoveryThreshold)
       /\ ev'.recovery <=> (ev'.healthy
                            /\ db[s].consecutiveFailures >= RecoveryThreshold)
       /\ db[s].status = "UP" => ~ev'.recovery
       /\ ev'.recovery => incident'[s].fails = 0]_vars

\* C3 witness: a healthy probe after at least 3 unhealthy ones sent the
\* recovery notice.
C3_Witness ==
  \E s \in Sites : PingedLast(s) /\ ev.healthy /\ ev.recovery
                   /\ db[s].status = "UP"

\* the last five probes of site s were healthy, 3 x unhealthy, healthy
ScenarioRan(s) ==
  /\ Len(recent[s]) = Len(Scenario)
  /\ \A i \in 1..Len(Scenario) : recent[s][i].healthy = Scenario[i]

\* C4: after healthy, unhealthy, unhealthy, unhealthy, healthy the first two
\* unhealthy probes attempted no alert, the third attempted one, the final
\* healthy probe sent the only recovery notice and no alert, and
\* consecutiveFailures is 0.
C4_AlertScenario ==
  \A s \in Sites : ScenarioRan(s) =>
    /\ recent[s][2].alert = "none"
    /\ recent[s][3].alert = "none"
    /\ recent[s][4].alert # "none"
    /\ recent[s][5].alert = "none"
    /\ \A i \in 2..4 : ~recent[s][i].recovery
    /\ recent[s][5].recovery
    /\ db[s].consecutiveFailures = 0

\* C4 witness: the five probes were made and the last one was the recovery
C4_Witness ==
  \E s \in Sites : ScenarioRan(s) /\ PingedLast(s) /\ ev.recovery

\* C5: a site the worker stopped at time T is neither probed nor resumed
\* before T + PauseMonitoring.
C5_PauseWindowHonoured ==
  [][\A s \in Sites :
       (db[s].isTemporarilyStopped /\ suspendedAt[s] # NoDate
          /\ now < suspendedAt[s] + PauseMonitoring)
       => (db'[s].isTemporarilyStopped /\ ~PingOf(s))]_vars

\* the start of the down time of site s when a probe fails now
DownStart(s) ==
  IF incident[s].downSince = NoDate THEN now ELSE incident[s].downSince

\* C6: in a run of unhealthy probes starting at t0, a probe stops the site
\* exactly when it is the first one evaluated at or after
\* t0 + DowntimeMonitoring, it then sets nextPingTime to its evaluation
\* time + PauseMonitoring, and no stopped site is in the result of the due
\* query.
C6_SuspendAfterWindow ==
  /\ [][\A s \in Sites :
          (PingOf(s) /\ ~ev'.healthy /\ ~incident[s].suspendedOnce) =>
            /\ db'[s].isTemporarilyStopped
                 <=> now >= DownStart(s) + DowntimeMonitoring
            /\ db'[s].isTemporarilyStopped
                 => db'[s].nextPingTime = now + PauseMonitoring]_vars
  /\ [][ev'.kind = "start" =>
          \A i \in 1..Len(queue') : ~db[queue'[i].id].isTemporarilyStopped]_vars

\* C6 witness: a probe stopped a site that was down for the whole window
C6_Witness ==
  \E s \in Sites :
    /\ PingedLast(s) /\ db[s].isTemporarilyStopped
    /\ now >= incident[s].downSince + DowntimeMonitoring
    /\ db[s].nextPingTime = now + PauseMonitoring

\* what the claim says an automatic resume leaves alone
SameIncidentState(s) ==
  /\ db'[s].consecutiveFailures = db[s].consecutiveFailures
  /\ db'[s].status = db[s].status
  /\ db'[s].pingHistory = db[s].pingHistory
  /\ db'[s].emailNotificationSent = db[s].emailNotificationSent

\* the step probes nothing and sends nothing
NoProbeNoNotice ==
  UNCHANGED <<totalPingsCompleted, browserVars, incident, recent>>

C8_SingleFlight ==
  /\ [](activeCycles <= 1)
  /\ [](isRunning <=> activeCycles = 1)
  /\ [][(isRunning /\ ev'.kind \in {"start", "skip"}) =>
          /\ ev'.kind = "skip"
          /\ UNCHANGED <<db, workerVars, browserVars, obsVars>>]_vars

\* C8 witness: the start-up tick arrived while the cycle of a cron tick
\* still had a site to probe, and was skipped.
C8_Witness ==
  /\ ev.kind = "skip" /\ ev.src = "startup"
  /\ isRunning /\ queue # << >>

\* C9: a probe that fails (HTTP error status, time-out, no context, no
\* page) appends a statusCode 0 entry to the history of its site, and the
\* cycle goes on with the sites that were left to probe.
C9_FailureDoesNotAbortTick ==
  [][\A s \in Sites : (PingOf(s) /\ ~ev'.healthy) =>
       /\ db'[s].pingHistory = Append(db[s].pingHistory, 0)
       /\ db'[s].status = "DOWN"
       /\ queue' = Tail(queue)
       /\ isRunning']_vars

\* C9 witness: the first due site failed its probe and the second due site
\* of the same cycle was probed after it.
C9_Witness ==
  /\ PingedLast(2)
  /\ db[1].status = "DOWN"
  /\ Len(db[1].pingHistory) = 1
  /\ Len(db[2].pingHistory) = 1
  /\ now = PingInterval

\* C10: no browser context and no page opened by pingWebsite is live
\* between probes.
C10_NoLiveSessions == liveContexts = 0 /\ livePages = 0

\* the smaller of two numbers
Min(a, b) == IF a <= b THEN a ELSE b

\* C11: after every addPingResult the history of a site holds at most
\* HistoryCap results, and it holds the latest results stored for the site,
\* oldest first: beyond the cap the oldest result is the one dropped.
C11_HistoryCapFifo ==
  \A s \in Sites :
    LET h == db[s].pingHistory
        n == Len(inserted[s])
    IN /\ Len(h) <= HistoryCap
       /\ Len(h) = Min(n, HistoryCap)
       /\ \A i \in 1..Len(h) : h[i] = inserted[s][n - Len(h) + i]

\* C11 witness: the endpoint stored a failed result as the third or a later
\* one beyond the cap and the history holds HistoryCap results
C11_Witness ==
  \E s \in Sites :
    /\ ev.kind = "update" /\ ev.site = s
    /\ Len(inserted[s]) > HistoryCap + 2
    /\ Len(db[s].pingHistory) = HistoryCap
    /\ db[s].pingHistory[HistoryCap] = 500

\* C12 as stated: a probe of a health/status URL answered by a 200 whose
\* body holds no positive token is unhealthy: the site ends DOWN, with one
\* more consecutive failure and a statusCode 0 entry.
C12_BareBodyIsUnhealthy ==
  [][\A s \in Sites : (PingOf(s) /\ ev'.body = "bare") =>
       /\ ~ev'.healthy
       /\ db'[s].status = "DOWN"
       /\ db'[s].consecutiveFailures = db[s].consecutiveFailures + 1
       /\ db'[s].pingHistory = Append(db[s].pingHistory, 0)]_vars

\* the last n probes of site s were healthy
LastHealthy(s, n) ==
  /\ Len(recent[s]) >= n
  /\ \A i \in (Len(recent[s]) - n + 1)..Len(recent[s]) : recent[s][i].healthy

\* C13: every healthy probe leaves its site UP with consecutiveFailures 0,
\* no stopPingUntil, not stopped, and nextPingTime equal to the time of the
\* probe + PingInterval.
C13_HealthyProbeSchedule ==
  [][\A s \in Sites : (PingOf(s) /\ ev'.healthy) =>
       /\ db'[s].status = "UP"
       /\ db'[s].consecutiveFailures = 0
       /\ db'[s].stopPingUntil = NoDate
       /\ ~db'[s].isTemporarilyStopped
       /\ db'[s].nextPingTime = now + PingInterval]_vars

\* C13 witness: three healthy probes of a site in a row, the last one now
C13_Witness ==
  \E s \in Sites :
    /\ PingedLast(s) /\ LastHealthy(s, 3)
    /\ db[s].status = "UP"
    /\ db[s].nextPingTime = now + PingInterval
    /\ Len(db[s].pingHistory) >= 3

\* C14 as stated: stopPingUntil is set exactly while the site is DOWN and
\* not stopped.
C14_DeadlineIffAccumulating ==
  \A s \in Sites :
    (db[s].stopPingUntil # NoDate)
      <=> (db[s].status = "DOWN" /\ ~db[s].isTemporarilyStopped)

\* C15: emailNotificationSent is false whenever consecutiveFailures is 0.
C15_FlagImpliesFailures ==
  \A s \in Sites :
    db[s].consecutiveFailures = 0 => ~db[s].emailNotificationSent

\* C15 witness: the healthy probe that ended an incident whose alert was
\* delivered left consecutiveFailures 0 and the flag false
C15_Witness ==
  \E s \in Sites :
    /\ PingedLast(s) /\ ev.healthy
    /\ \E i \in 1..Len(recent[s]) : recent[s][i].alert = "sent"
    /\ db[s].consecutiveFailures = 0
    /\ ~db[s].emailNotificationSent

\* C16 as stated: during an incident stopPingUntil, whenever set, is the
\* time of the first unhealthy probe of the incident + DowntimeMonitoring.
C16_DeadlineFromFirstFailure ==
  \A s \in Sites :
    (incident[s].downSince # NoDate /\ db[s].stopPingUntil # NoDate)
      => db[s].stopPingUntil = incident[s].downSince + DowntimeMonitoring

\* C16 amended: an unhealthy probe sets stopPingUntil only when it is unset,
\* to its own time + DowntimeMonitoring, and then does not stop the site; a
\* stopPingUntil that is set is not moved by a failure. The first unhealthy
\* probe of an incident finds it unset, and until the site is stopped for
\* the first time in the incident it is the time of that first probe +
\* DowntimeMonitoring. (After an automatic resume has cleared it, the next
\* failure of the same incident sets it again.)
C16_DeadlineSetWhenUnset ==
  [][\A s \in Sites : (PingOf(s) /\ ~ev'.healthy) =>
       /\ db[s].stopPingUntil = NoDate
            => /\ db'[s].stopPingUntil = now + DowntimeMonitoring
               /\ ~db'[s].isTemporarilyStopped
       /\ db[s].stopPingUntil # NoDate
            => db'[s].stopPingUntil = db[s].stopPingUntil
       /\ incident[s].fails = 0 => db[s].stopPingUntil = NoDate
       /\ ~incident[s].suspendedOnce
            => db'[s].stopPingUntil = DownStart(s) + DowntimeMonitoring]_vars

\* C16 witness: a failure after the automatic resume of a site that has
\* not recovered set stopPingUntil a second time in the incident
C16_Witness ==
  \E s \in Sites :
    /\ PingedLast(s) /\ ~ev.healthy
    /\ incident[s].suspendedOnce
    /\ incident[s].downSince < now
    /\ db[s].stopPingUntil = now + DowntimeMonitoring

\* C17 as stated: no site is both probed and resumed in one ping cycle.
C17_ProbedAndResumedDisjoint ==
  [][ev'.kind = "finish" => ev'.resumed \cap probed = {}]_vars

\* C18 as stated: the resumes of a cycle come before its first probe.
C18_ResumesBeforeProbes ==
  [][(ev'.kind = "finish" /\ ev'.resumed # {}) => probed = {}]_vars

\* C18 amended: the resumes of a cycle come after its last probe: the step
\* that resumes finds nothing left to ping, takes the stopped sites that are
\* due as the probes left them and ends the cycle, and a probe is made only
\* while a cycle is running.
C18_ResumesAfterProbes ==
  /\ [][ev'.kind = "finish" =>
          /\ queue = << >>
          /\ ev'.resumed = DueForResume(db, now)
          /\ ~isRunning']_vars
  /\ [][\A s \in Sites : PingOf(s) => isRunning]_vars

\* C18 witness: a cycle that probed both sites ended by resuming a site
C18_Witness ==
  /\ ev.kind = "finish" /\ ev.resumed # {}
  /\ probed = Sites
  /\ ~isRunning

\* C19 as stated: a find or a save that the storage rejects during a ping
\* cycle ends the cycle; no site probed earlier in the cycle was stored, the
\* call that met the rejection stores nothing and sends no alert.
C19_AbortWithoutWrites ==
  /\ [][(ev'.kind = "ping" /\ ev'.rejected) =>
          /\ ev'.threw /\ ~isRunning'
          /\ probed = {}
          /\ db' = db
          /\ ev'.alert = "none"]_vars
  /\ [][(ev'.kind = "start" /\ ~ev'.found) => (db' = db /\ ~isRunning')]_vars

\* C20 as stated: a probe that fails because no browser context could be
\* created changes nothing in the document of its site and sends no alert.
C20_EngineFailureKeepsState ==
  [][\A s \in Sites : (PingOf(s) /\ ev'.engine) =>
       /\ db'[s] = db[s]
       /\ ev'.alert = "none"]_vars

\* C21: at most one call of pingWebsite is in progress for a site at any
\* time (and at most one in the whole worker), whatever the order of cron
\* ticks, the start-up tick and the ends of probes.
C21_OneProbePerSite ==
  /\ \A s \in Sites : pinging[s] <= 1
  /\ \A s, t \in Sites : (pinging[s] = 1 /\ pinging[t] = 1) => s = t

\* C21 witness: a cron tick arrived while the probe of the second site of a
\* cycle was in progress and was skipped
C21_Witness ==
  /\ ev.kind = "skip" /\ ev.src = "cron"
  /\ pinging[2] = 1
  /\ probed = {1}

\* C22 as stated: no site is probed by a ping cycle while its stored
\* isTemporarilyStopped is true.
C22_NoProbeWhileStopped ==
  [][\A s \in Sites : PingOf(s) => ~db[s].isTemporarilyStopped]_vars

\* C26 as stated: a site paused through the pause endpoint is not probed and
\* stays stopped until the resume endpoint is called for it.
C26_PausedUntilResumed ==
  [][\A s \in userPaused :
       \/ ev'.kind = "resume" /\ ev'.site = s
       \/ db'[s].isTemporarilyStopped /\ ~PingOf(s)]_vars

\* the calls of pingWebsite the bound MaxPings still allows cover the
\* documents of the running cycle and n more
PingsLeftFor(n) == pingCalls + Len(queue) + n <= MaxPings

\* C23: while cron ticks keep coming and probes end, a site that is not
\* stopped and whose nextPingTime has passed is eventually probed and its
\* result stored, which schedules it anew.
C23_DueEventuallyProbed ==
  \A s \in Sites :
    (db[s].nextPingTime <= now /\ ~db[s].isTemporarilyStopped
       /\ PingsLeftFor(Cardinality(Sites)))
      ~> (PingedLast(s) /\ db[s].nextPingTime > now
            /\ Len(db[s].pingHistory) >= 1)

\* C23 witness: site 2, due for its first probe, was probed by a cycle that
\* probed no other site, and the result was stored
C23_Witness ==
  /\ PingedLast(2) /\ now = PingInterval
  /\ db[2].nextPingTime = now + PingInterval
  /\ Len(db[2].pingHistory) = 1
  /\ 1 \notin probed

\* the step ends a ping cycle: the loop was left by an exception, the due
\* query was rejected, or the code after the loop ran
CycleExit ==
  \/ ev'.kind = "ping" /\ ev'.threw
  \/ ev'.kind = "start" /\ ~ev'.found
  \/ ev'.kind = "finish"

\* C24: a ping cycle that has started ends, and on every way out (no due
\* site, all probes done, the due query rejected, an exception from a probe)
\* isRunning is false afterwards; a tick is skipped only while a cycle is in
\* progress.
C24_CycleEndsNotRunning ==
  /\ (isRunning /\ PingsLeftFor(0)) ~> ~isRunning
  /\ [][CycleExit => (~isRunning' /\ activeCycles' = 0)]_vars
  /\ [][ev'.kind = "skip" => (isRunning /\ activeCycles = 1)]_vars

\* C24 witness: after a cycle that an exception from a probe ended, a cron
\* tick was not skipped and started a new cycle
C24_Witness ==
  /\ ev.kind = "start" /\ ev.src = "cron" /\ ev.found
  /\ isRunning
  /\ pingCalls > totalPingsCompleted

\* C25 as stated: a probe classified healthy never leaves its site stored
\* DOWN, with consecutiveFailures > 0 or with a statusCode 0 entry.
C25_HealthyNeverStoredDown ==
  [][\A s \in Sites : (PingOf(s) /\ ev'.healthy) =>
       \/ db'[s] = db[s]
       \/ /\ db'[s].status = "UP"
          /\ db'[s].consecutiveFailures = 0
          /\ inserted'[s] = Append(inserted[s], 200)]_vars

\* site s was stopped by the downtime-window rule and its date has passed
Suspended(s) ==
  /\ db[s].isTemporarilyStopped
  /\ db[s].stopPingUntil # NoDate /\ db[s].stopPingUntil <= now

\* C29: a site stopped by the downtime-window rule is eventually resumed
\* (or the bound MaxPings ends the run first); every cycle that reaches its
\* end runs the resume query, also when it found no site to probe, and
\* resumes what it can; a site it could not resume stays due for resume.
C29_SuspendedEventuallyResumed ==
  /\ \A s \in Sites :
       Suspended(s) ~> (~db[s].isTemporarilyStopped \/ pingCalls = MaxPings)
  /\ [][ev'.kind = "finish" =>
          /\ ev'.resumed \subseteq DueForResume(db, now)
          /\ dbUp => ev'.resumed = DueForResume(db, now)
          /\ \A s \in DueForResume(db, now) \ ev'.resumed :
               s \in DueForResume(db', now')]_vars

\* C29 witness: a cycle that found no site to probe resumed a site that an
\* earlier cycle, run while the storage was out, had left stopped
C29_Witness ==
  /\ ev.kind = "finish" /\ ev.resumed # {}
  /\ probed = {}
  /\ outages >= 1

\* C28 as stated: in every stored document status and failure count agree:
\* UP implies consecutiveFailures = 0, DOWN implies consecutiveFailures >= 1.
C28_StatusAgreesWithFailures ==
  \A s \in Sites :
    /\ db[s].status = "UP" => db[s].consecutiveFailures = 0
    /\ db[s].status = "DOWN" => db[s].consecutiveFailures >= 1

\* C27 as stated: the browser and the database connection are not being
\* closed while a ping cycle is in progress, no ping cycle starts once
\* shutdown has begun, and no probe runs while the browser is closing.
C27_ShutdownKeepsClearOfCycles ==
  /\ [](shutdown = "closing" => ~isRunning)
  /\ [][(ev'.kind = "start" /\ ev'.found) => shutdown = "none"]_vars
  /\ [][\A s \in Sites : PingOf(s) => shutdown # "closing"]_vars

\* C30 as stated: when a socket that the client did not close ends with a
\* code other than 1000 and fewer than maxReconnectAttempts attempts have
\* been made since the last open, a new attempt is scheduled or in
\* progress; the attempts never exceed maxReconnectAttempts; an open
\* resets the counter to 0.
C30_RetriesUntilOpenOrMax ==
  /\ [][(/\ ev'.kind = "close" /\ ~ev'.byClient
          /\ ev'.code # NormalClosure
          /\ reconnectAttempts < maxReconnectAttempts)
         => (\/ timers' > 0
             \/ \E i \in 1..Len(sockets') :
                  /\ sockets'[i].src = "timer"
                  /\ sockets'[i].readyState = "CONNECTING")]_vars
  /\ [](reconnectAttempts <= maxReconnectAttempts)
  /\ [][ev'.kind = "open" => reconnectAttempts' = 0]_vars

====
